---- MODULE Spec2Model ----
(***************************************************************************)
(* Model of the hop-chained shutdown orchestrator of                       *)
(* src/shutdown-bot.py: main() walks gateway -> fleet -> node, issues the  *)
(* power-off command, waits for each node to go dark and decides whether   *)
(* the parent fleet host may be shut down.                                 *)
(*                                                                         *)
(* The environment (SSH transport, remote hosts) answers every connect,    *)
(* diagnostic, command execution and reachability probe; each answer is a  *)
(* nondeterministic choice in the action that makes the call.  A Python    *)
(* exception that is not caught where it is raised is carried in `exc`     *)
(* through the finally blocks exactly as the interpreter unwinds them.     *)
(***************************************************************************)
EXTENDS Integers, Sequences, FiniteSets, TLC

\* ---------------------------------------------------------------- bounds
\* Hosts below the gateway in a plan: fleets plus their nodes.
MaxHosts == 3
\* Largest per-node confirmation timeout (seconds) tried.
MaxTimeout == 2
\* Largest poll interval (seconds) tried.
MaxPoll == 1
\* Largest timeout and poll interval tried on the wait loop on its own.
MaxWaitTimeout == 4
MaxWaitPoll == 3
\* Longest output, in tokens, of a resolver command.
MaxTokens == 2
\* Hosts below the gateway in the plans of the termination check.
MaxLiveHosts == 2
\* Longest answer, in characters, typed at the confirmation prompt.
MaxAnswer == 5

VARIABLES
    args,           \* [dry_run, non_strict]: the CLI flags
    fleets,         \* the plan: fleets[f] = number of nodes of fleet f
    node_timeout,   \* per-node confirmation timeout
    poll_interval,  \* polling interval
    pc,             \* position of main()
    fi,             \* index of the fleet being processed (for f in fleets)
    ni,             \* index of the node being processed (for node in f.nodes)
    gw_conn,        \* gateway session: "none" | "open" | "closed"
    ws,             \* fleet session bound to `ws`
    node_cli,       \* node session bound to `node_cli`
    channels,       \* forwarded channels currently open: [via, dest]
    issues,         \* the Issue list
    parent_skip,    \* the protective-skip flag of the current fleet
    exc,            \* TRUE while an exception is propagating
    elapsed,        \* time.time() - start inside wait_for_host_down
    polls,          \* answers of the reachability probes of the current wait
    log,            \* history: every call made on the transport, in order
    fleet_pw_map,   \* fleets whose credential has been resolved
    config_error,   \* fleet whose credential could not be resolved (0: none)
    reported,       \* the Issues printed by the final Diagnostics report
    call            \* a function applied on its own: [fn, in, out]

vars == <<args, fleets, node_timeout, poll_interval, pc, fi, ni, gw_conn, ws,
          node_cli, channels, issues, parent_skip, exc, elapsed, polls, log,
          fleet_pw_map, config_error, reported, call>>

\* ---------------------------------------------------------------- targets
\* A host is <<fleet index, node index>>; <<0,0>> is the gateway ("triton"),
\* <<f,0>> the host of fleet f, <<f,n>> the n-th node of fleet f.
GW == <<0, 0>>
FleetHost(f) == <<f, 0>>
Node(f, n) == <<f, n>>
Origin == <<-1, -1>>

IsFleetHost(t) == t[1] >= 1 /\ t[2] = 0
IsNode(t) == t[1] >= 1 /\ t[2] >= 1

RECURSIVE SumSeq(_)
SumSeq(s) == IF s = <<>> THEN 0 ELSE Head(s) + SumSeq(Tail(s))

\* Plans: every ordered list of fleets whose hosts (fleet hosts + nodes)
\* number at most MaxHosts.
Plans ==
    { p \in UNION { [1..k -> 0..MaxHosts] : k \in 0..MaxHosts } :
        Len(p) + SumSeq(p) <= MaxHosts }

\* An entry of `log`: the call `op` made for host `target` on the session
\* to `via`, and the environment's answer.
Event(op, target, via, ans) ==
    [op |-> op, target |-> target, via |-> via, ans |-> ans]

\* An entry of `issues`: stage, via and target.  Its reason and hint are the
\* value of classify_failure(e, diag), a pure function of the caught error
\* and the diagnosis that no step of main() reads back.
Issue(stage, via, target) ==
    [stage |-> stage, via |-> via, target |-> target]

\* ---------------------------------------------------------------- helpers
\* Variant of issues_append that inserts at the front.
issues_insert(is, it) == <<it>> \o is

\* issues.append({...})
issues_append(is, it) == Append(is, it)

\* Variant of SSH.close() that leaves the client open.
SSHcloseNoop(s) == s

\* SSH.close(): closes the client; idempotent.
SSHclose(s) == IF s = "open" THEN "closed" ELSE s

\* Variant of ChannelsAfterClose that releases only the session's own channel.
ChannelsAfterCloseOwn(t) == { c \in channels : c.dest # t }

\* Channels that die with the session to `t`: the one the session runs over
\* and every channel forwarded through it.
ChannelsAfterClose(t) == { c \in channels : c.via # t /\ c.dest # t }

\* Variant of AfterFleetPc that leaves the fleet loop after its first pass.
AfterFleetPcBreak(f) == "gw_shutdown"

\* `for f in fleets`: position after the body for fleet f ends normally.
AfterFleetPc(f) == IF f < Len(fleets) THEN "fleet_connect" ELSE "gw_shutdown"

\* `for node in f.nodes`: position after the body for node n ends normally
\* (also by `continue`).
AfterNodePc(f, n) == IF n < fleets[f] THEN "precheck" ELSE "fleet_decide"

\* Variant of GatewayConnectPc without the `return` of the except clause.
GatewayConnectPcNoReturn(a) ==
    IF Len(fleets) >= 1 THEN "fleet_connect" ELSE "gw_shutdown"

\* main(): try: gw_conn = connect_host(...) except Exception: ...; return
GatewayConnectPc(a) ==
    IF a = "ok"
       THEN (IF Len(fleets) >= 1 THEN "fleet_connect" ELSE "gw_shutdown")
       ELSE "done"

\* Variant of SkipOnConnectFailure that forgets the assignment.
SkipOnConnectFailureNever(ps) == ps

\* except-clause of the node connection:
\* if not args.dry_run and not args.non_strict: parent_skip = True
SkipOnConnectFailure(ps) ==
    IF ~args.dry_run /\ ~args.non_strict THEN TRUE ELSE ps

\* Variant of SkipOnTimeout that forgets the assignment.
SkipOnTimeoutNever(ok, ps) == ps

\* after the wait: if not ok and not args.non_strict: parent_skip = True
SkipOnTimeout(ok, ps) ==
    IF ~ok /\ ~args.non_strict THEN TRUE ELSE ps

\* shutdown_host(): what the call does, by the environment's answer.
\*   "dry"          dry-run: the intent is printed, nothing is sent
\*   "rc0"          command sent, exit status 0
\*   "rcNonZero"    command sent, non-zero exit status: a warning is printed
\*   "raiseBefore"  exec_command raised: nothing was sent
\*   "raiseAfter"   the command was sent, then writing/reading raised
ShutdownAnswersNoDryRun(dry_run) ==
    {"rc0", "rcNonZero", "raiseBefore", "raiseAfter"}

ShutdownAnswers(dry_run) ==
    IF dry_run THEN {"dry"} ELSE {"rc0", "rcNonZero", "raiseBefore", "raiseAfter"}

\* Variant of shutdown_host that issues the command a second time when the
\* first exit status is not 0.
shutdown_hostRetry(tag, a) ==
    IF a = "rcNonZero"
      THEN <<Event("shutdown", tag, tag, a), Event("poweroff", tag, tag, a),
             Event("shutdown", tag, tag, "rc0"), Event("poweroff", tag, tag, "rc0")>>
    ELSE <<Event("shutdown", tag, tag, a)>> \o
         (IF a \in {"rc0", "raiseAfter"}
             THEN <<Event("poweroff", tag, tag, a)>> ELSE <<>>)

shutdown_host(tag, a) ==
    <<Event("shutdown", tag, tag, a)>> \o
    (IF a \in {"rc0", "rcNonZero", "raiseAfter"}
        THEN <<Event("poweroff", tag, tag, a)>> ELSE <<>>)

\* Variant of ShutdownRaised that makes a non-zero exit status an error.
ShutdownRaisedOnNonZero(a) == a \in {"raiseBefore", "raiseAfter", "rcNonZero"}

\* shutdown_host() raises only when run_remote_command() does; a non-zero
\* exit status is printed as a warning and the call returns.
ShutdownRaised(a) == a \in {"raiseBefore", "raiseAfter"}

\* No function is being applied on its own.
NoCall == [fn |-> "none"]

\* Variant of ResolvePc that swallows the RuntimeError.
ResolvePcIgnoreError(k) == "gw_connect"

\* main(): for f in fleets: fleet_pw_map[f.name] = _resolve_password(...);
\* _resolve_password raises when the credential of fleet k cannot be read.
ResolvePc(k) == IF k = 0 THEN "gw_connect" ELSE "aborted"

\* Variant of ReportIssues that prints nothing.
ReportNothing(is) == <<>>

\* finally: if issues: ... for it in issues: print(...)
ReportIssues(is) == is

\* ---------------------------------------------------------------- Init
Init ==
    /\ args \in [dry_run : BOOLEAN, non_strict : BOOLEAN]
    /\ fleets \in Plans
    /\ node_timeout \in 0..MaxTimeout
    /\ poll_interval \in 1..MaxPoll
    /\ pc = "resolve"
    /\ fi = 0
    /\ ni = 0
    /\ gw_conn = "none"
    /\ ws = "none"
    /\ node_cli = "none"
    /\ channels = {}
    /\ issues = <<>>
    /\ parent_skip = FALSE
    /\ exc = FALSE
    /\ elapsed = 0
    /\ polls = <<>>
    /\ log = <<>>
    /\ fleet_pw_map = {}
    /\ config_error = 0
    /\ reported = <<>>
    /\ call = NoCall

\* ---------------------------------------------------------------- actions
plan == <<args, fleets, node_timeout, poll_interval>>
creds == <<fleet_pw_map, config_error>>

\* Password collection, before anything is connected: the credential of
\* every fleet is resolved in configuration order (prompt, "env:NAME",
\* "file:PATH" or literal).  k is the first fleet whose "env:NAME" variable
\* is unset (or whose file cannot be read): _resolve_password raises there,
\* naming it, and nothing catches the error.  k = 0: all were resolved.
ResolvePasswords ==
    /\ pc = "resolve"
    /\ \E k \in 0..Len(fleets) :
        /\ fleet_pw_map' = IF k = 0 THEN 1..Len(fleets) ELSE 1..(k - 1)
        /\ config_error' = k
        /\ pc' = ResolvePc(k)
        /\ exc' = (k # 0)
    /\ UNCHANGED <<plan, fi, ni, gw_conn, ws, node_cli, channels, issues,
                   parent_skip, elapsed, polls, log, reported, call>>

\* connect through a forwarded channel: open_direct_tcpip_channel() then
\* connect_host(sock=...).
\*   "ok"       channel opened and session authenticated
\*   "channel"  open_channel raised: no channel exists
\*   "auth"     the channel was opened, then connect_host raised on it
HopAnswers == {"ok", "channel", "auth"}

\* diagnose_on_remote(): it returns a dict with dns_ok/tcp_ok, or one of its
\* _run() calls raises on the hop session.
DiagAnswers ==
    { d \in [raised : BOOLEAN, dns_ok : BOOLEAN, tcp_ok : BOOLEAN] :
        d.raised => (~d.dns_ok /\ ~d.tcp_ok) }

DiagAns(d) == IF d.raised THEN "raise" ELSE "ret"

\* What the pre-check gave: it raised, it returned a Diagnosis with dns_ok or
\* tcp_ok False ("warn"), or one with neither False ("clean").
PrecheckAns(d) ==
    IF d.raised THEN "raise"
    ELSE IF ~d.dns_ok \/ ~d.tcp_ok THEN "warn"
    ELSE "clean"

\* Variant of AfterPrecheckPc that treats a warning as a connection failure.
AfterPrecheckPcStrict(d) ==
    IF d.raised \/ ~d.dns_ok \/ ~d.tcp_ok THEN "node_diag" ELSE "node_connect"

\* pre = diagnose_on_remote(...); if pre[...] is False: issues.append(...);
\* sock_node = open_direct_tcpip_channel(...): the connection follows the
\* pre-check unless the pre-check raised.
AfterPrecheckPc(d) == IF d.raised THEN "node_diag" ELSE "node_connect"

\* main(): connect_host(gw.host, ...) -- fatal on failure (return).
ConnectGateway ==
    /\ pc = "gw_connect"
    /\ \E a \in {"ok", "fail"} :
        IF a = "ok"
          THEN /\ log' = Append(log, Event("connect", GW, Origin, a))
               /\ gw_conn' = "open"
               /\ pc' = GatewayConnectPc(a)
               /\ fi' = IF pc' = "fleet_connect" THEN 1 ELSE fi
          ELSE /\ log' = log \o <<Event("connect", GW, Origin, a),
                                  Event("fatal", GW, Origin, "reported")>>
               /\ gw_conn' = gw_conn
               /\ pc' = GatewayConnectPc(a)
               /\ fi' = IF pc' = "fleet_connect" THEN 1 ELSE fi
    /\ UNCHANGED <<plan, creds, reported, call, ni, ws, node_cli, channels, issues, parent_skip, exc,
                   elapsed, polls>>

\* for f in fleets: try: sock_ws = open_direct_tcpip_channel(gw_conn...);
\* ws = connect_host(...).  On success the node loop starts with
\* parent_skip = False.
ConnectFleet ==
    /\ pc = "fleet_connect"
    /\ \E a \in HopAnswers :
        /\ log' = Append(log, Event("connect", FleetHost(fi), GW, a))
        /\ channels' = IF a = "channel" THEN channels
                       ELSE channels \cup {[via |-> GW, dest |-> FleetHost(fi)]}
        /\ IF a = "ok"
              THEN /\ ws' = "open"
                   /\ parent_skip' = FALSE
                   /\ pc' = IF fleets[fi] >= 1 THEN "precheck" ELSE "fleet_decide"
                   /\ ni' = IF fleets[fi] >= 1 THEN 1 ELSE 0
              ELSE /\ pc' = "fleet_diag"
                   /\ UNCHANGED <<ws, parent_skip, ni>>
    /\ UNCHANGED <<plan, creds, reported, call, fi, gw_conn, node_cli, issues, exc, elapsed, polls>>

\* except Exception as e: diag = diagnose_on_remote(gw_conn.client, f.name);
\* classify; issues.append(...); continue.  A raise inside the handler is
\* caught nowhere below the outer finally.
FleetDiagnose ==
    /\ pc = "fleet_diag"
    /\ \E d \in DiagAnswers :
        /\ log' = Append(log, Event("diagnose", FleetHost(fi), GW, DiagAns(d)))
        /\ IF d.raised
              THEN /\ exc' = TRUE
                   /\ pc' = "gw_finally"
                   /\ UNCHANGED <<issues, fi>>
              ELSE /\ issues' = issues_append(issues, Issue("workstation", GW, FleetHost(fi)))
                   /\ pc' = AfterFleetPc(fi)
                   /\ fi' = IF pc' = "fleet_connect" THEN fi + 1 ELSE fi
                   /\ exc' = exc
    /\ UNCHANGED <<plan, creds, reported, call, ni, gw_conn, ws, node_cli, channels, parent_skip,
                   elapsed, polls>>

\* for node in f.nodes: try: pre = diagnose_on_remote(ws.client, node);
\* a warning Issue when dns_ok or tcp_ok is False; a raise goes to the
\* except clause that also handles the connection failure.
Precheck ==
    /\ pc = "precheck"
    /\ \E d \in DiagAnswers :
        /\ log' = Append(log, Event("precheck", Node(fi, ni), FleetHost(fi), PrecheckAns(d)))
        /\ pc' = AfterPrecheckPc(d)
        /\ issues' = IF ~d.raised /\ (~d.dns_ok \/ ~d.tcp_ok)
                        THEN issues_append(issues, Issue("node(precheck)", FleetHost(fi), Node(fi, ni)))
                        ELSE issues
    /\ UNCHANGED <<plan, creds, reported, call, fi, ni, gw_conn, ws, node_cli, channels, parent_skip,
                   exc, elapsed, polls>>

\* sock_node = open_direct_tcpip_channel(ws.transport, node, f.port);
\* node_cli = connect_host(node, ..., sock=sock_node)
ConnectNode ==
    /\ pc = "node_connect"
    /\ \E a \in HopAnswers :
        /\ log' = Append(log, Event("connect", Node(fi, ni), FleetHost(fi), a))
        /\ channels' = IF a = "channel" THEN channels
                       ELSE channels \cup {[via |-> FleetHost(fi), dest |-> Node(fi, ni)]}
        /\ node_cli' = IF a = "ok" THEN "open" ELSE node_cli
        /\ pc' = IF a = "ok" THEN "node_shutdown" ELSE "node_diag"
    /\ UNCHANGED <<plan, creds, reported, call, fi, ni, gw_conn, ws, issues, parent_skip, exc,
                   elapsed, polls>>

\* except Exception as e: diag = diagnose_on_remote(ws.client, node);
\* issues.append(...); if not dry_run and not non_strict: parent_skip = True;
\* continue
NodeDiagnose ==
    /\ pc = "node_diag"
    /\ \E d \in DiagAnswers :
        /\ log' = Append(log, Event("diagnose", Node(fi, ni), FleetHost(fi), DiagAns(d)))
        /\ IF d.raised
              THEN /\ exc' = TRUE
                   /\ pc' = "ws_finally"
                   /\ UNCHANGED <<issues, parent_skip, ni>>
              ELSE /\ issues' = issues_append(issues, Issue("node", FleetHost(fi), Node(fi, ni)))
                   /\ parent_skip' = SkipOnConnectFailure(parent_skip)
                   /\ pc' = AfterNodePc(fi, ni)
                   /\ ni' = IF pc' = "precheck" THEN ni + 1 ELSE ni
                   /\ exc' = exc
    /\ UNCHANGED <<plan, creds, reported, call, fi, gw_conn, ws, node_cli, channels, elapsed, polls>>

\* Variant of NodeShutdownPc for a try without its finally.
NodeShutdownPcNoFinally(a) ==
    IF a \in {"raiseBefore", "raiseAfter"} THEN "ws_finally" ELSE "node_finally"

\* try: shutdown_host(...) finally: ... -- the finally block runs whether
\* shutdown_host returned or raised.
NodeShutdownPc(a) == "node_finally"

\* try: shutdown_host(node, node_cli.client, ...)
ShutdownNode ==
    /\ pc = "node_shutdown"
    /\ \E a \in ShutdownAnswers(args.dry_run) :
        /\ log' = log \o shutdown_host(Node(fi, ni), a)
        /\ exc' = ShutdownRaised(a)
        /\ pc' = NodeShutdownPc(a)
    /\ UNCHANGED <<plan, creds, reported, call, fi, ni, gw_conn, ws, node_cli, channels, issues,
                   parent_skip, elapsed, polls>>

\* Variant of WaitVia that probes from the gateway session.
WaitViaGateway(f) == GW

\* wait_for_host_down_via_transport(ws.transport, node, ...): the vantage
\* point of the wait is the session of the node's fleet.
WaitVia(f) == FleetHost(f)

\* Variant of WaitsForNode that never confirms.
WaitsForNodeNever == FALSE

\* finally: ...; if not args.dry_run: ok = wait_for_host_down_via_transport(...)
WaitsForNode == ~args.dry_run

\* finally: node_cli.close(); if not args.dry_run: ok = wait_for_host_down...
\* In dry-run the body of the finally ends here; a pending exception then
\* leaves the node loop.
CloseNode ==
    /\ pc = "node_finally"
    /\ node_cli' = SSHclose(node_cli)
    /\ channels' = ChannelsAfterClose(Node(fi, ni))
    /\ IF WaitsForNode
          THEN /\ log' = log \o <<Event("close", Node(fi, ni), Node(fi, ni), "closed"),
                                  Event("wait", Node(fi, ni), WaitVia(fi), "start")>>
               /\ pc' = "wait"
               /\ ni' = ni
          ELSE /\ log' = Append(log, Event("close", Node(fi, ni), Node(fi, ni), "closed"))
               /\ pc' = IF exc THEN "ws_finally" ELSE AfterNodePc(fi, ni)
               /\ ni' = IF pc' = "precheck" THEN ni + 1 ELSE ni
    /\ elapsed' = 0
    /\ polls' = <<>>
    /\ UNCHANGED <<plan, creds, reported, call, fi, gw_conn, ws, issues, parent_skip, exc>>

\* The statements of main() that follow the return of
\* wait_for_host_down_via_transport() with value ok.
WaitReturn(ok) ==
    /\ log' = Append(log, Event("waited", Node(fi, ni), WaitVia(fi),
                                IF ok THEN "down" ELSE "timeout"))
    /\ parent_skip' = SkipOnTimeout(ok, parent_skip)
    /\ pc' = IF exc THEN "ws_finally" ELSE AfterNodePc(fi, ni)
    /\ ni' = IF pc' = "precheck" THEN ni + 1 ELSE ni

\* Variant of interval without the clamp to one second.
intervalNoClamp == poll_interval

\* interval = max(1, poll_interval)
interval == IF poll_interval > 1 THEN poll_interval ELSE 1

\* Variant of TimeLeft that still polls at the deadline.
TimeLeftInclusive == elapsed <= node_timeout

\* Variant of TimeLeft without a deadline.
TimeLeftAlways == TRUE

\* Variant of TimeLeft that stops one interval early.
TimeLeftEarly == elapsed + interval < node_timeout

\* while time.time() < deadline, with deadline = start + timeout_sec
TimeLeft == elapsed < node_timeout

\* Variant of HostDown that reads the probe the wrong way round.
HostDownInverted(reachable) == reachable

\* if not is_ssh_reachable_via_transport(...): return True
HostDown(reachable) == ~reachable

\* while time.time() < deadline: if not is_ssh_reachable...: return True;
\* time.sleep(interval)
WaitPoll ==
    /\ pc = "wait"
    /\ TimeLeft
    /\ \E reachable \in BOOLEAN :
        /\ polls' = Append(polls, reachable)
        /\ IF HostDown(reachable)
              THEN /\ WaitReturn(TRUE)
                   /\ elapsed' = elapsed
              ELSE /\ elapsed' = elapsed + interval
                   /\ UNCHANGED <<log, parent_skip, pc, ni>>
    /\ UNCHANGED <<plan, creds, reported, call, fi, gw_conn, ws, node_cli, channels, issues, exc>>

\* the while condition is false: return False
WaitTimeout ==
    /\ pc = "wait"
    /\ ~TimeLeft
    /\ WaitReturn(FALSE)
    /\ UNCHANGED <<elapsed, polls>>
    /\ UNCHANGED <<plan, creds, reported, call, fi, gw_conn, ws, node_cli, channels, issues, exc>>

\* if parent_skip: (protective message) else: shutdown_host(f.name, ws.client)
DecideFleet ==
    /\ pc = "fleet_decide"
    /\ IF parent_skip
          THEN /\ log' = Append(log, Event("skip", FleetHost(fi), FleetHost(fi), "protected"))
               /\ exc' = exc
          ELSE \E a \in ShutdownAnswers(args.dry_run) :
                  /\ log' = log \o shutdown_host(FleetHost(fi), a)
                  /\ exc' = ShutdownRaised(a)
    /\ pc' = "ws_finally"
    /\ UNCHANGED <<plan, creds, reported, call, fi, ni, gw_conn, ws, node_cli, channels, issues,
                   parent_skip, elapsed, polls>>

\* finally: ws.close()
CloseFleet ==
    /\ pc = "ws_finally"
    /\ ws' = SSHclose(ws)
    /\ channels' = ChannelsAfterClose(FleetHost(fi))
    /\ log' = Append(log, Event("close", FleetHost(fi), FleetHost(fi), "closed"))
    /\ pc' = IF exc THEN "gw_finally" ELSE AfterFleetPc(fi)
    /\ fi' = IF pc' = "fleet_connect" THEN fi + 1 ELSE fi
    /\ UNCHANGED <<plan, creds, reported, call, ni, gw_conn, node_cli, issues, parent_skip, exc,
                   elapsed, polls>>

\* shutdown_host("triton", gw_conn.client, ...)
ShutdownGateway ==
    /\ pc = "gw_shutdown"
    /\ \E a \in ShutdownAnswers(args.dry_run) :
        /\ log' = log \o shutdown_host(GW, a)
        /\ exc' = ShutdownRaised(a)
    /\ pc' = "gw_finally"
    /\ UNCHANGED <<plan, creds, reported, call, fi, ni, gw_conn, ws, node_cli, channels, issues,
                   parent_skip, elapsed, polls>>

\* finally: gw_conn.close(); the Diagnostics report (printed if issues)
CloseGateway ==
    /\ pc = "gw_finally"
    /\ gw_conn' = SSHclose(gw_conn)
    /\ channels' = ChannelsAfterClose(GW)
    /\ log' = log \o <<Event("close", GW, GW, "closed"),
                       Event("report", GW, Origin,
                             IF issues # <<>> THEN "issues" ELSE "empty")>>
    /\ reported' = ReportIssues(issues)
    /\ pc' = "done"
    /\ UNCHANGED <<plan, creds, call, fi, ni, ws, node_cli, issues, parent_skip, exc,
                   elapsed, polls>>

Next ==
    \/ ResolvePasswords
    \/ ConnectGateway
    \/ ConnectFleet
    \/ FleetDiagnose
    \/ Precheck
    \/ ConnectNode
    \/ NodeDiagnose
    \/ ShutdownNode
    \/ CloseNode
    \/ WaitPoll
    \/ WaitTimeout
    \/ DecideFleet
    \/ CloseFleet
    \/ ShutdownGateway
    \/ CloseGateway

Spec == Init /\ [][Next]_vars

\* ---------------------------------------------------------------- history
Happened(op, t) == \E i \in DOMAIN log : log[i].op = op /\ log[i].target = t
HappenedAns(op, t, a) ==
    \E i \in DOMAIN log : log[i].op = op /\ log[i].target = t /\ log[i].ans = a

Connected(t) == HappenedAns("connect", t, "ok")
ConnectFailed(t) ==
    \E i \in DOMAIN log : log[i].op = "connect" /\ log[i].target = t /\ log[i].ans # "ok"
Invoked(t) == Happened("shutdown", t)
Sent(t) == Happened("poweroff", t)
ConfirmedDown(t) == HappenedAns("waited", t, "down")
TimedOut(t) == HappenedAns("waited", t, "timeout")
Skipped(t) == Happened("skip", t)
Closed(t) == Happened("close", t)

FleetIds == 1..Len(fleets)
NodeIds(f) == 1..fleets[f]
Live == ~args.dry_run
Strict == ~args.non_strict

\* ---------------------------------------------------------------- claims

\* C1: in a live run with strict mode active, a fleet host has been sent the
\* power-off command only if every one of its nodes was connected, had
\* Shutdown issued on it and was confirmed down by the wait.
C1_FleetPowerOffOnlyAfterNodesConfirmed ==
    (Live /\ Strict) =>
        \A f \in FleetIds :
            Sent(FleetHost(f)) =>
                \A n \in NodeIds(f) :
                    /\ Connected(Node(f, n))
                    /\ Invoked(Node(f, n))
                    /\ ConfirmedDown(Node(f, n))

\* C1 witness: a live strict run sent the power-off command to a fleet host
\* that has two nodes.
C1_Witness ==
    /\ Live /\ Strict
    /\ \E f \in FleetIds : fleets[f] = 2 /\ Sent(FleetHost(f))

\* C2 as stated: with strict mode active, in any run (dry-run included), a
\* fleet host whose node failed to connect or was not confirmed down never
\* has Shutdown invoked on it.
C2_StrictNeverInvokesFleetShutdown ==
    Strict =>
        \A f \in FleetIds :
            Invoked(FleetHost(f)) =>
                \A n \in NodeIds(f) :
                    ~ConnectFailed(Node(f, n)) /\ ConfirmedDown(Node(f, n))

\* C2 amended: in a live run with strict mode active, Shutdown is never
\* invoked on a fleet host one of whose nodes failed to connect or was not
\* confirmed down, and parent_skip holds when such a fleet's node loop ends;
\* a fleet recorded as skipped never has Shutdown invoked.
C2_LiveStrictNeverInvokesFleetShutdown ==
    (Live /\ Strict) =>
        \A f \in FleetIds :
            /\ Invoked(FleetHost(f)) =>
                  \A n \in NodeIds(f) :
                      ~ConnectFailed(Node(f, n)) /\ ConfirmedDown(Node(f, n))
            /\ (pc = "fleet_decide" /\ fi = f
                  /\ \E n \in NodeIds(f) : ~ConfirmedDown(Node(f, n)))
                  => parent_skip
            /\ Skipped(FleetHost(f)) => ~Invoked(FleetHost(f))

\* C2 witness: a live strict run in which a node failed to connect and its
\* fleet was protectively skipped.
C2_Witness ==
    /\ Live /\ Strict
    /\ \E f \in FleetIds :
          /\ Skipped(FleetHost(f))
          /\ \E n \in NodeIds(f) : ConnectFailed(Node(f, n))

\* A fleet has finished processing: its connection failed and was reported,
\* or its session was closed after its host was shut down or skipped.
FleetFinished(f) ==
    \/ /\ ConnectFailed(FleetHost(f))
       /\ \E i \in DOMAIN issues :
             issues[i].stage = "workstation" /\ issues[i].target = FleetHost(f)
    \/ /\ Closed(FleetHost(f))
       /\ Invoked(FleetHost(f)) \/ Skipped(FleetHost(f))

\* C3: Shutdown is issued to the gateway only after every fleet of the plan
\* has finished processing and no fleet or node session is open, and after
\* it nothing happens on any fleet or node.
C3_GatewayShutdownLast ==
    \A i \in DOMAIN log :
        (log[i].op = "shutdown" /\ log[i].target = GW) =>
            /\ \A f \in FleetIds : FleetFinished(f)
            /\ ws # "open" /\ node_cli # "open"
            /\ pc \in {"gw_finally", "done"}
            /\ \A j \in DOMAIN log : j > i => log[j].target = GW

\* C3 witness: the gateway was shut down after two fleets, one shut down and
\* one whose connection failed.
C3_Witness ==
    /\ Invoked(GW)
    /\ Len(fleets) >= 2
    /\ \E f \in FleetIds : Invoked(FleetHost(f))
    /\ \E f \in FleetIds : ConnectFailed(FleetHost(f))

\* C4: in a live strict run the gateway is not sent the power-off command
\* while a protectively skipped fleet host, or a node whose confirmation
\* timed out, is still reachable only through it.
C4_GatewayNotCutOffFromLiveHosts ==
    (Live /\ Strict /\ Sent(GW)) =>
        \A f \in FleetIds :
            /\ ~Skipped(FleetHost(f))
            /\ \A n \in NodeIds(f) : ~TimedOut(Node(f, n))

\* C5: in non-strict mode parent_skip is never set, and when the run has
\* ended every fleet whose host session was established has had Shutdown
\* invoked on its host.
C5_NonStrictAlwaysShutsFleetDown ==
    args.non_strict =>
        /\ ~parent_skip
        /\ pc = "done" =>
              \A f \in FleetIds : Connected(FleetHost(f)) => Invoked(FleetHost(f))

\* C6: in dry-run mode the power-off command is never sent to any host and
\* the confirmation wait is never invoked.
C6_DryRunSendsNothing ==
    args.dry_run =>
        /\ \A i \in DOMAIN log : log[i].op \notin {"poweroff", "wait", "waited"}
        /\ pc # "wait"
        /\ polls = <<>> /\ elapsed = 0

\* C6 witness: a dry run that ended after invoking Shutdown on a node, its
\* fleet host and the gateway.
C6_Witness ==
    /\ args.dry_run
    /\ pc = "done"
    /\ Invoked(GW)
    /\ \E f \in FleetIds :
          Invoked(FleetHost(f)) /\ \E n \in NodeIds(f) : Invoked(Node(f, n))

\* The connection attempts and diagnoses of a run, with their answers.
IsCall(e) == e.op \in {"connect", "precheck", "diagnose"}
Calls == SelectSeq(log, IsCall)

\* The call a dry run makes next, given the last call it made and the
\* answer it got (a dry run's shutdown step never raises and never waits).
Call(op, target, via) == <<op, target, via>>
EndOfCalls == Call("end", GW, GW)
DryNextFleet(f) ==
    IF f < Len(fleets) THEN Call("connect", FleetHost(f + 1), GW) ELSE EndOfCalls
DryNextNode(f, n) ==
    IF n < fleets[f] THEN Call("precheck", Node(f, n + 1), FleetHost(f))
    ELSE DryNextFleet(f)
DryNextCall(c) ==
    IF c = <<>> THEN Call("connect", GW, Origin)
    ELSE LET e == c[Len(c)]
             t == e.target
         IN  IF t = GW
               THEN (IF e.ans = "ok" THEN DryNextFleet(0) ELSE EndOfCalls)
             ELSE IF e.ans = "raise" /\ e.op = "diagnose" THEN EndOfCalls
             ELSE IF IsFleetHost(t)
               THEN (IF e.op = "connect"
                       THEN (IF e.ans = "ok" THEN DryNextNode(t[1], 0)
                             ELSE Call("diagnose", t, GW))
                       ELSE DryNextFleet(t[1]))
             ELSE IF e.op = "precheck"
               THEN (IF e.ans = "raise" THEN Call("diagnose", t, e.via)
                     ELSE Call("connect", t, e.via))
             ELSE IF e.op = "connect" /\ e.ans # "ok"
               THEN Call("diagnose", t, e.via)
             ELSE DryNextNode(t[1], t[2])

\* C7: a run makes the calls a dry run makes for the same plan and the same
\* answers: every call it makes is the dry run's next call, and when it has
\* ended the dry run has no call left to make.
C7_SameCallsAsDryRun ==
    /\ \A k \in DOMAIN Calls :
          DryNextCall(SubSeq(Calls, 1, k - 1))
              = Call(Calls[k].op, Calls[k].target, Calls[k].via)
    /\ pc = "done" => DryNextCall(Calls) = EndOfCalls

\* C8: when the connection to the gateway fails the run ends after reporting
\* it: nothing else was attempted on any host.
C8_GatewayFailureIsFatal ==
    HappenedAns("connect", GW, "fail") =>
        /\ pc = "done"
        /\ log = <<Event("connect", GW, Origin, "fail"),
                   Event("fatal", GW, Origin, "reported")>>
        /\ issues = <<>>
        /\ gw_conn = "none" /\ ws = "none" /\ node_cli = "none"
        /\ channels = {}

\* C8 witness: the gateway connection failed in a run whose plan has a fleet
\* with a node.
C8_Witness ==
    /\ HappenedAns("connect", GW, "fail")
    /\ pc = "done"
    /\ \E f \in FleetIds : fleets[f] >= 1

\* C9: once the gateway is connected no failure aborts the run: no exception
\* leaves a node or fleet iteration, and the run ends by issuing Shutdown to
\* the gateway.
C9_NoFailureAbortsRun ==
    Connected(GW) =>
        /\ pc \in {"gw_finally", "done"} => Invoked(GW)
        /\ exc => (pc \in {"gw_finally", "done"} /\ Invoked(GW))

\* An Issue of a failure (not a pre-check warning) names target t.
HasFailureIssue(t) ==
    \E i \in DOMAIN issues :
        issues[i].target = t /\ issues[i].stage \in {"workstation", "node"}
HasIssue(t) == \E i \in DOMAIN issues : issues[i].target = t

\* C10: every fleet-connect failure, node-connect failure and confirmation
\* timeout has appended an Issue for the affected target: a timeout as soon
\* as the wait returns, a connection failure by the end of the run.
C10_EveryFailureHasIssue ==
    /\ \A f \in FleetIds : \A n \in NodeIds(f) :
          TimedOut(Node(f, n)) => HasIssue(Node(f, n))
    /\ pc = "done" =>
          \A f \in FleetIds :
              /\ ConnectFailed(FleetHost(f)) => HasFailureIssue(FleetHost(f))
              /\ \A n \in NodeIds(f) :
                    ConnectFailed(Node(f, n)) => HasFailureIssue(Node(f, n))

IssuesFor(t) == { i \in DOMAIN issues : issues[i].target = t }

\* C11: whenever a fleet is protectively skipped exactly one Issue is
\* appended for that fleet (so the Issue count is the number of failure
\* Issues plus the number of skipped fleets).
C11_SkipAppendsOneIssue ==
    \A f \in FleetIds :
        Skipped(FleetHost(f)) => Cardinality(IssuesFor(FleetHost(f))) = 1

\* The fleet loop has gone on past fleet f.
WentOnPast(f) ==
    \/ fi > f
    \/ f = Len(fleets) /\ (pc = "gw_shutdown" \/ Invoked(GW))

\* C12: when connecting to a fleet host fails, none of its nodes is touched
\* and Shutdown is not invoked on it; once the failure has been handled,
\* Diagnose has run on the gateway session against the fleet host, exactly
\* one Issue names the fleet, and the loop has gone on to the next fleet.
C12_FleetConnectFailureHandled ==
    \A f \in FleetIds :
        ConnectFailed(FleetHost(f)) =>
            /\ \A i \in DOMAIN log : log[i].target[1] = f => log[i].target[2] = 0
            /\ ~Invoked(FleetHost(f))
            /\ ~(pc = "fleet_diag" /\ fi = f) =>
                  /\ \E i \in DOMAIN log :
                        /\ log[i].op = "diagnose"
                        /\ log[i].target = FleetHost(f)
                        /\ log[i].via = GW
                  /\ Cardinality(IssuesFor(FleetHost(f))) = 1
                  /\ WentOnPast(f)

\* Every host of the plan, and the gateway.
Targets ==
    {GW} \cup { FleetHost(f) : f \in FleetIds }
         \cup UNION { { Node(f, n) : n \in NodeIds(f) } : f \in FleetIds }

Closes(t) == { i \in DOMAIN log : log[i].op = "close" /\ log[i].target = t }

\* C13: a session is closed only if it was opened and at most once, and when
\* the run has ended (normally or with an exception propagating) every
\* session that was opened has been closed exactly once.
C13_SessionsClosedExactlyOnce ==
    /\ \A t \in Targets :
          /\ Cardinality(Closes(t)) <= 1
          /\ Closes(t) # {} => Connected(t)
    /\ pc = "done" =>
          /\ gw_conn # "open" /\ ws # "open" /\ node_cli # "open"
          /\ \A t \in Targets : Connected(t) => Cardinality(Closes(t)) = 1

\* C13 witness: a run ended by an exception after a node session had been
\* opened.
C13_Witness ==
    /\ pc = "done"
    /\ exc
    /\ \E f \in FleetIds : \E n \in NodeIds(f) : Connected(Node(f, n))

\* The run has ended: main() returned, or an uncaught error ended it.
Ended == pc \in {"done", "aborted"}

\* C14: on every exit path the gateway session, if it was opened, is closed
\* and the accumulated Issue list is what the final report printed; where a
\* gateway session existed, closing it and the report are the last steps.
C14_GatewayClosedIssuesReportedLast ==
    /\ Ended =>
          /\ gw_conn # "open"
          /\ reported = issues
          /\ Connected(GW) =>
                /\ Len(log) >= 2
                /\ log[Len(log) - 1] = Event("close", GW, GW, "closed")
                /\ log[Len(log)].op = "report"
    /\ ~Ended => reported = <<>>

\* C14 witness: a run ended by an exception after Issues had accumulated.
C14_Witness ==
    /\ pc = "done"
    /\ exc
    /\ issues # <<>>

\* C15: no connection is attempted before the credentials of all fleets
\* are resolved; when a credential cannot be resolved (env:NAME unset) the
\* run is aborted by the error naming it and nothing is ever connected, in
\* dry-run as in live mode.
C15_CredentialsResolvedFirst ==
    /\ log # <<>> => (fleet_pw_map = FleetIds /\ config_error = 0)
    /\ pc # "resolve" /\ config_error = 0 => fleet_pw_map = FleetIds
    /\ config_error # 0 =>
          /\ pc = "aborted" /\ exc
          /\ config_error \in FleetIds
          /\ fleet_pw_map = 1..(config_error - 1)
          /\ log = <<>>
          /\ gw_conn = "none" /\ ws = "none" /\ node_cli = "none"

\* C15 witness: a dry run with one fleet and one node whose credential
\* names an unset variable has been aborted.
C15_Witness ==
    /\ args.dry_run
    /\ fleets = <<1>>
    /\ config_error = 1
    /\ pc = "aborted"

\* ------------------------------------------------- the wait loop on its own
\* wait_for_host_down_via_transport() over a wider range of timeouts
\* (negative ones included) and poll intervals (0 included): the run of a
\* live plan with one fleet and one node, taken at the call of the wait.
InitWait ==
    /\ args \in [dry_run : {FALSE}, non_strict : BOOLEAN]
    /\ fleets = <<1>>
    /\ node_timeout \in -1..MaxWaitTimeout
    /\ poll_interval \in 0..MaxWaitPoll
    /\ pc = "wait"
    /\ fi = 1
    /\ ni = 1
    /\ gw_conn = "open"
    /\ ws = "open"
    /\ node_cli = "closed"
    /\ channels = {[via |-> GW, dest |-> FleetHost(1)]}
    /\ issues = <<>>
    /\ parent_skip = FALSE
    /\ exc = FALSE
    /\ elapsed = 0
    /\ polls = <<>>
    /\ log = <<Event("connect", GW, Origin, "ok"),
               Event("connect", FleetHost(1), GW, "ok"),
               Event("precheck", Node(1, 1), FleetHost(1), "clean"),
               Event("connect", Node(1, 1), FleetHost(1), "ok"),
               Event("shutdown", Node(1, 1), Node(1, 1), "rc0"),
               Event("poweroff", Node(1, 1), Node(1, 1), "rc0"),
               Event("close", Node(1, 1), Node(1, 1), "closed"),
               Event("wait", Node(1, 1), FleetHost(1), "start")>>
    /\ fleet_pw_map = {1}
    /\ config_error = 0
    /\ reported = <<>>
    /\ call = NoCall

NextWait ==
    \/ WaitPoll
    \/ WaitTimeout

SpecWait == InitWait /\ [][NextWait]_vars

\* The wait has returned and nothing has happened since; its value.
WaitDone == log # <<>> /\ log[Len(log)].op = "waited"
WaitValue == log[Len(log)].ans
ReachablePolls == { i \in DOMAIN polls : polls[i] }
MaxOf(a, b) == IF a > b THEN a ELSE b

\* C16: for every T and P, when the first poll reports the host unreachable
\* the wait returns true at once: no second poll, no sleep.
C16_FirstPollUnreachableReturnsTrue ==
    (polls # <<>> /\ ~polls[1]) =>
        /\ WaitDone /\ WaitValue = "down"
        /\ Len(polls) = 1
        /\ elapsed = 0 /\ elapsed <= MaxOf(1, poll_interval)

\* C16 witness: with poll interval 0 the first poll found the host
\* unreachable and the wait returned.
C16_Witness ==
    /\ poll_interval = 0
    /\ polls = <<FALSE>>
    /\ WaitDone

C18_WaitValueAndCadence ==
    /\ elapsed = Cardinality(ReachablePolls) * MaxOf(1, poll_interval)
    /\ \A i \in DOMAIN polls : ~polls[i] => i = Len(polls)
    /\ ReachablePolls # DOMAIN polls => (WaitDone /\ WaitValue = "down")
    /\ WaitDone =>
          /\ WaitValue = "down" <=> ReachablePolls # DOMAIN polls
          /\ WaitValue = "timeout" =>
                (elapsed >= node_timeout /\ ReachablePolls = DOMAIN polls)

\* C18 witness: with poll interval 0 the second poll, one second after the
\* first, found the host unreachable.
C18_Witness ==
    /\ poll_interval = 0
    /\ polls = <<TRUE, FALSE>>
    /\ elapsed = 1
    /\ WaitDone /\ WaitValue = "down"

\* ------------------------------------------------ functions on their own
\* Everything main() owns, untouched while a function is applied on its own.
run == <<plan, creds, reported, pc, fi, ni, gw_conn, ws, node_cli, channels,
         issues, parent_skip, exc, elapsed, polls, log>>

\* The state before main() has done anything, for an empty plan.
Standalone ==
    /\ args = [dry_run |-> FALSE, non_strict |-> FALSE]
    /\ fleets = <<>>
    /\ node_timeout = 0
    /\ poll_interval = 1
    /\ pc = "resolve"
    /\ fi = 0
    /\ ni = 0
    /\ gw_conn = "none"
    /\ ws = "none"
    /\ node_cli = "none"
    /\ channels = {}
    /\ issues = <<>>
    /\ parent_skip = FALSE
    /\ exc = FALSE
    /\ elapsed = 0
    /\ polls = <<>>
    /\ log = <<>>
    /\ fleet_pw_map = {}
    /\ config_error = 0
    /\ reported = <<>>

\* The exception classes that reach classify_failure, with their base
\* classes as paramiko.ssh_exception and the standard library declare them.
ExcClasses ==
    {"AuthenticationException", "BadAuthenticationType", "BadHostKeyException",
     "ChannelException", "SSHException", "ProxyCommandFailure",
     "NoValidConnectionsError", "timeout", "RuntimeError"}

Bases(c) ==
    CASE c = "AuthenticationException" -> {"SSHException", "Exception"}
      [] c = "BadAuthenticationType" ->
            {"AuthenticationException", "SSHException", "Exception"}
      [] c = "BadHostKeyException" -> {"SSHException", "Exception"}
      [] c = "ChannelException" -> {"SSHException", "Exception"}
      [] c = "ProxyCommandFailure" -> {"SSHException", "Exception"}
      [] c = "SSHException" -> {"Exception"}
      [] c = "NoValidConnectionsError" -> {"OSError", "Exception"}
      [] c = "timeout" -> {"OSError", "Exception"}
      [] OTHER -> {"Exception"}

isinstance(e, c) == e.class = c \/ c \in Bases(e.class)

\* Python's True / False / None for the dns_ok and tcp_ok entries.
Tri == {"True", "False", "None"}

\* The diag argument: None (present = FALSE) or a dict.
Diags ==
    { d \in [present : BOOLEAN, dns_ok : Tri, tcp_ok : Tri] :
        ~d.present => (d.dns_ok = "None" /\ d.tcp_ok = "None") }

ErrorTexts == {"", "connection reset"}

\* Variant of classify_failure that tests tcp_ok before dns_ok.
classify_failureTcpFirst(e, diag) ==
    IF isinstance(e, "AuthenticationException")
      THEN <<"authentication failure", "verify credentials/keys">>
    ELSE IF isinstance(e, "BadHostKeyException")
      THEN <<"host-key mismatch", "review known-hosts entry">>
    ELSE IF isinstance(e, "ChannelException")
      THEN (IF diag.present /\ diag.tcp_ok = "False"
              THEN <<"TCP unreachable", "check firewall/routing/port">>
            ELSE IF diag.present /\ diag.dns_ok = "False"
              THEN <<"name resolution failure", "check DNS/hosts on the hop">>
            ELSE <<"channel failure", "target likely down or unreachable">>)
    ELSE IF isinstance(e, "SSHException")
      THEN <<"protocol error", "check network/SSH configuration">>
    ELSE <<"unknown error", e.text>>

\* classify_failure(exc, diag) -> (reason, hint)
classify_failure(e, diag) ==
    IF isinstance(e, "AuthenticationException")
      THEN <<"authentication failure", "verify credentials/keys">>
    ELSE IF isinstance(e, "BadHostKeyException")
      THEN <<"host-key mismatch", "review known-hosts entry">>
    ELSE IF isinstance(e, "ChannelException")
      THEN (IF diag.present /\ diag.dns_ok = "False"
              THEN <<"name resolution failure", "check DNS/hosts on the hop">>
            ELSE IF diag.present /\ diag.tcp_ok = "False"
              THEN <<"TCP unreachable", "check firewall/routing/port">>
            ELSE <<"channel failure", "target likely down or unreachable">>)
    ELSE IF isinstance(e, "SSHException")
      THEN <<"protocol error", "check network/SSH configuration">>
    ELSE <<"unknown error", e.text>>

InitClassify ==
    /\ Standalone
    /\ call \in [fn : {"classify"},
                 exc : [class : ExcClasses, text : ErrorTexts],
                 diag : Diags,
                 done : {FALSE},
                 out : {<<"", "">>}]

\* reason, hint = classify_failure(e, diag)
Classify ==
    /\ call.fn = "classify"
    /\ ~call.done
    /\ call' = [call EXCEPT !.done = TRUE,
                            !.out = classify_failure(call.exc, call.diag)]
    /\ UNCHANGED run

NextClassify ==
    \/ Classify

SpecClassify == InitClassify /\ [][NextClassify]_vars

\* The error kinds of the classification table.
ErrorKind(c) ==
    CASE c \in {"AuthenticationException", "BadAuthenticationType"} -> "auth"
      [] c = "BadHostKeyException" -> "hostkey"
      [] c = "ChannelException" -> "channel"
      [] c \in {"SSHException", "ProxyCommandFailure"} -> "protocol"
      [] OTHER -> "other"

\* The reason the table gives for an error kind and a diagnosis.
TableReason(kind, diag) ==
    CASE kind = "auth" -> "authentication failure"
      [] kind = "hostkey" -> "host-key mismatch"
      [] kind = "channel" /\ diag.dns_ok = "False" -> "name resolution failure"
      [] kind = "channel" /\ diag.dns_ok # "False" /\ diag.tcp_ok = "False"
            -> "TCP unreachable"
      [] kind = "channel" /\ diag.dns_ok # "False" /\ diag.tcp_ok # "False"
            -> "channel failure"
      [] kind = "protocol" -> "protocol error"
      [] OTHER -> "unknown error"

\* C19: for every error kind and every diagnosis the classification is made
\* (total) and gives the reason of the table; an unknown error carries the
\* raw error text as its hint; the diagnosis matters only for channel
\* failures (the table reads it for no other kind).
C19_ClassifyMatchesTable ==
    call.fn = "classify" =>
        /\ ~call.done => ENABLED Classify
        /\ call.done =>
              /\ call.out[1] = TableReason(ErrorKind(call.exc.class), call.diag)
              /\ call.out[1] = "unknown error" => call.out[2] = call.exc.text
              /\ ErrorKind(call.exc.class) # "channel" =>
                    call.out = classify_failure(call.exc, [present |-> FALSE,
                                   dns_ok |-> "None", tcp_ok |-> "None"])

\* C19 witness: a channel failure whose diagnosis has dns_ok and tcp_ok both
\* False was classified.
C19_Witness ==
    /\ call.fn = "classify"
    /\ call.done
    /\ call.exc.class = "ChannelException"
    /\ call.diag.present
    /\ call.diag.dns_ok = "False" /\ call.diag.tcp_ok = "False"

\* ------------------------------------------------------ diagnose_on_remote
\* Tokens a resolver command can print, as character sequences.
Tokens ==
    { <<"1", ".", "2">>, <<"f", ":", "1">>, <<"w", "s">>, <<".">> }

Digits == {"0", "1", "2", "3", "4", "5", "6", "7", "8", "9"}

\* str.isdigit(): non-empty and all digits.
isdigit(t) == Len(t) > 0 /\ \A k \in 1..Len(t) : t[k] \in Digits

\* tok.replace('.', '').isdigit() or ':' in tok
IsAddress(tok) ==
    \/ isdigit(SelectSeq(tok, LAMBDA c : c # "."))
    \/ \E k \in 1..Len(tok) : tok[k] = ":"

\* The tokens of out.splitlines() / split(), in order, that parse as addresses.
ParseIps(out) == SelectSeq(out, IsAddress)

RECURSIVE Unique(_)
\* list(dict.fromkeys(ips)): duplicates removed, first occurrences kept.
Unique(s) ==
    IF s = <<>> THEN <<>>
    ELSE LET init == Unique(SubSeq(s, 1, Len(s) - 1))
             last == s[Len(s)]
         IN IF \E k \in 1..Len(init) : init[k] = last
               THEN init
               ELSE Append(init, last)

RECURSIVE SeqsUpTo(_, _)
SeqsUpTo(S, n) ==
    IF n = 0 THEN {<<>>}
    ELSE LET shorter == SeqsUpTo(S, n - 1)
         IN shorter \cup { Append(q, x) : q \in shorter, x \in S }

\* What _run gives for a resolver command: it raises, or returns the output.
DnsOutcomes ==
    { o \in [raised : BOOLEAN, out : SeqsUpTo(Tokens, MaxTokens)] :
        o.raised => o.out = <<>> }

\* What _run gives for a TCP probe command.
TcpOutcomes ==
    { o \in [raised : BOOLEAN, out : {<<>>, <<"OK">>, <<"NG">>}] :
        o.raised => o.out = <<>> }

\* "OK" in out
HasOK(out) == \E k \in 1..Len(out) : out[k] = "OK"

cmds == <<"getent hosts", "getent ahosts", "nslookup">>

InitDiagnose ==
    /\ Standalone
    /\ call \in [fn : {"diagnose"},
                 target : {FleetHost(1), Node(1, 1)},
                 pc : {"dns"},
                 i : {1},
                 ran : {<<>>},
                 outs : {<<>>},
                 result : {[dns_ok |-> "None", dns_ips |-> <<>>,
                            tcp_ok |-> "None", tcp_method |-> "None",
                            notes |-> <<>>]}]

\* One command was handed to _run and gave outcome o.
Ran(cmd, o) ==
    [call EXCEPT !.ran = Append(@, cmd), !.outs = Append(@, o.out)]

\* One round of "for cmd in cmds", and the dns_ok test after the loop.
DiagDns ==
    /\ call.fn = "diagnose"
    /\ call.pc = "dns"
    /\ \E o \in DnsOutcomes :
        LET c == Ran(cmds[call.i], o)
            ips == ParseIps(o.out)
        IN call' =
            IF o.raised
              THEN [c EXCEPT !.pc = "raised"]
            ELSE IF o.out # <<>> /\ ips # <<>>
              THEN [c EXCEPT !.pc = "tcp",
                             !.result.dns_ok = "True",
                             !.result.dns_ips = Unique(ips)]
            ELSE IF call.i < Len(cmds)
              THEN [c EXCEPT !.i = @ + 1]
            ELSE [c EXCEPT !.pc = "tcp",
                           !.result.dns_ok = "False",
                           !.result.notes = Append(@, "DNS resolution failed")]
    /\ UNCHANGED run

\* The nc probe.
DiagTcp ==
    /\ call.fn = "diagnose"
    /\ call.pc = "tcp"
    /\ \E o \in TcpOutcomes :
        LET c == Ran("nc", o)
        IN call' =
            IF o.raised
              THEN [c EXCEPT !.pc = "raised"]
            ELSE IF HasOK(o.out)
              THEN [c EXCEPT !.pc = "ret",
                             !.result.tcp_ok = "True",
                             !.result.tcp_method = "nc"]
            ELSE [c EXCEPT !.pc = "fallback"]
    /\ UNCHANGED run

\* The bash /dev/tcp probe, and the return.
DiagFallback ==
    /\ call.fn = "diagnose"
    /\ call.pc = "fallback"
    /\ \E o \in TcpOutcomes :
        LET c == Ran("/dev/tcp", o)
        IN call' =
            IF o.raised
              THEN [c EXCEPT !.pc = "raised"]
            ELSE IF HasOK(o.out)
              THEN [c EXCEPT !.pc = "ret",
                             !.result.tcp_ok = "True",
                             !.result.tcp_method = "/dev/tcp"]
            ELSE [c EXCEPT !.pc = "ret",
                           !.result.tcp_ok = "False",
                           !.result.tcp_method = "nc|/dev/tcp"]
    /\ UNCHANGED run

NextDiagnose ==
    \/ DiagDns
    \/ DiagTcp
    \/ DiagFallback

SpecDiagnose == InitDiagnose /\ [][NextDiagnose]_vars

\* C20: diagnose_on_remote never leaves by an exception, whatever its probe
\* commands do, and when it returns without a resolved address dns_ok is
\* False and notes is not empty.
C20_DiagnoseNeverRaises ==
    call.fn = "diagnose" =>
        /\ call.pc # "raised"
        /\ (call.pc = "ret" /\ call.result.dns_ips = <<>>) =>
              (call.result.dns_ok = "False" /\ call.result.notes # <<>>)

\* ------------------------------------------------ claims on the node steps
IsStep(e) == e.op \in {"shutdown", "close", "wait", "waited"}

\* The steps taken for node t after its connection, in the order of the log.
NodeSteps(t) == SelectSeq(log, LAMBDA e : e.target = t /\ IsStep(e))

IsPrefix(a, b) == Len(a) <= Len(b) /\ \A k \in 1..Len(a) : a[k].op = b[k]

\* The steps of a connected node: Shutdown, close, and the wait in a live run.
FullSteps ==
    IF Live THEN <<"shutdown", "close", "wait", "waited">>
    ELSE <<"shutdown", "close">>

\* After node t was connected, something was done for another host.
MovedOn(t) ==
    \E i, j \in DOMAIN log :
        /\ i < j
        /\ log[i].op = "connect" /\ log[i].target = t /\ log[i].ans = "ok"
        /\ log[j].target # t

\* C21: for every node that was connected, Shutdown on the node session,
\* the close of the node session and (in a live run) the wait through the
\* fleet session happen in this order, and all of them have happened before
\* anything is done for the next node or for the fleet host.
C21_NodeStepsInOrder ==
    \A f \in FleetIds : \A n \in NodeIds(f) :
        LET t == Node(f, n)
        IN Connected(t) =>
            /\ IsPrefix(NodeSteps(t), FullSteps)
            /\ \A i \in DOMAIN log :
                  (log[i].target = t /\ IsStep(log[i])) =>
                      log[i].via = IF log[i].op \in {"wait", "waited"}
                                      THEN FleetHost(f) ELSE t
            /\ (\/ MovedOn(t)
                \/ fi = f /\ ni > n
                \/ fi = f /\ pc = "fleet_decide")
                  => Len(NodeSteps(t)) = Len(FullSteps)

\* C21 witness: in a live run the first node of a fleet was connected, shut
\* down, closed and waited for, and the pre-check of the second node was made.
C21_Witness ==
    /\ Live
    /\ \E f \in FleetIds :
          /\ fleets[f] >= 2
          /\ Connected(Node(f, 1))
          /\ Happened("waited", Node(f, 1))
          /\ Happened("precheck", Node(f, 2))

\* The sessions opened and not yet closed, by the history.
OpenSessions ==
    { t \in Targets :
        \E i \in DOMAIN log :
            /\ log[i].op = "connect" /\ log[i].target = t /\ log[i].ans = "ok"
            /\ \A j \in DOMAIN log :
                  j > i => ~(log[j].op = "close" /\ log[j].target = t) }

\* The connection attempts to fleet hosts / to nodes, in the order made.
FleetAttempts ==
    SelectSeq(log, LAMBDA e : e.op = "connect" /\ IsFleetHost(e.target))
NodeAttempts ==
    SelectSeq(log, LAMBDA e : e.op = "connect" /\ IsNode(e.target))

\* t comes before u in configuration order.
Before(t, u) == t[1] < u[1] \/ (t[1] = u[1] /\ t[2] < u[2])

InConfigOrder(s) ==
    \A i, j \in DOMAIN s : i < j => Before(s[i].target, s[j].target)

\* C22: at most one fleet session and at most one node session are open;
\* fleets and nodes are attempted one at a time in configuration order, and
\* when a connection is being attempted (or pre-checked) the session of the
\* previous node -- and for a fleet, of the previous fleet -- is closed.
C22_OneSessionPerLevel ==
    /\ Cardinality({ t \in OpenSessions : IsFleetHost(t) }) <= 1
    /\ Cardinality({ t \in OpenSessions : IsNode(t) }) <= 1
    /\ ws = "open" <=> (fi >= 1 /\ FleetHost(fi) \in OpenSessions)
    /\ node_cli = "open" <=> (fi >= 1 /\ ni >= 1 /\ Node(fi, ni) \in OpenSessions)
    /\ InConfigOrder(FleetAttempts)
    /\ InConfigOrder(NodeAttempts)
    /\ pc = "fleet_connect" => (ws # "open" /\ node_cli # "open")
    /\ pc \in {"precheck", "node_connect"} => (ws = "open" /\ node_cli # "open")

\* C22 witness: a node session is open inside an open fleet session after
\* an earlier fleet or node session was opened and closed.
C22_Witness ==
    /\ node_cli = "open"
    /\ ws = "open"
    /\ \E t \in Targets : t # GW /\ Connected(t) /\ Closed(t)

\* The node loop of fleet f has ended or been left.
NodeLoopOver(f) ==
    \/ Closed(FleetHost(f))
    \/ fi = f /\ pc \in {"fleet_decide", "ws_finally"}

\* Processing has gone past node n of fleet f.
PastNode(f, n) == NodeLoopOver(f) \/ (fi = f /\ ni > n)

NodeIssues(t) ==
    { i \in DOMAIN issues : issues[i].target = t /\ issues[i].stage = "node" }

\* C23: in a connected fleet every configured node gets a connection
\* attempt, in configuration order, whatever happened to earlier nodes; a
\* node-connect failure is followed by a Diagnose through the fleet session
\* and exactly one Issue, and sets parent_skip exactly when the run is
\* neither a dry run nor non-strict.
C23_EveryNodeAttempted ==
    \A f \in FleetIds :
        Connected(FleetHost(f)) =>
            /\ NodeLoopOver(f) =>
                  \A n \in NodeIds(f) : Happened("connect", Node(f, n))
            /\ InConfigOrder(NodeAttempts)
            /\ \A n \in NodeIds(f) :
                  (ConnectFailed(Node(f, n)) /\ PastNode(f, n)) =>
                      /\ \E i \in DOMAIN log :
                            /\ log[i].op = "diagnose"
                            /\ log[i].target = Node(f, n)
                            /\ log[i].via = FleetHost(f)
                            /\ log[i].ans = "ret"
                      /\ Cardinality(NodeIssues(Node(f, n))) = 1
                      /\ (fi = f /\ Live /\ Strict) => parent_skip
            /\ (fi = f /\ (args.dry_run \/ args.non_strict)) => ~parent_skip

WarningIssues(t) ==
    { i \in DOMAIN issues :
        issues[i].target = t /\ issues[i].stage = "node(precheck)" }

\* C24: a pre-check that reports dns_ok or tcp_ok False appends one warning
\* Issue and the connection to the node is attempted all the same; the
\* warning alone never sets parent_skip, and when the connection succeeds
\* Shutdown is issued on the node.
C24_PrecheckIsAdvisory ==
    \A f \in FleetIds : \A n \in NodeIds(f) :
        LET t == Node(f, n)
        IN /\ Cardinality(WarningIssues(t)) =
                 IF HappenedAns("precheck", t, "warn") THEN 1 ELSE 0
           /\ HappenedAns("precheck", t, "warn") =>
                 /\ (fi = f /\ ni = n /\ pc = "node_connect") \/ Happened("connect", t)
                 /\ Connected(t) =>
                       (fi = f /\ ni = n /\ pc = "node_shutdown") \/ Invoked(t)
                 /\ (fi = f /\ ws = "open" /\ parent_skip) =>
                       \E m \in NodeIds(f) :
                           \/ ConnectFailed(Node(f, m))
                           \/ HappenedAns("precheck", Node(f, m), "raise")
                           \/ TimedOut(Node(f, m))

\* C24 witness: a node whose pre-check gave a warning was connected and had
\* Shutdown issued, and its fleet host was then shut down.
C24_Witness ==
    \E f \in FleetIds : \E n \in NodeIds(f) :
        /\ HappenedAns("precheck", Node(f, n), "warn")
        /\ Connected(Node(f, n))
        /\ Invoked(Node(f, n))
        /\ Invoked(FleetHost(f))

\* This step is a shutdown_host() call whose command exited non-zero.
NonZeroStep ==
    /\ Len(log') = Len(log) + 2
    /\ log'[Len(log')].op = "poweroff"
    /\ log'[Len(log')].ans = "rcNonZero"

\* Something other than a power-off exit status went wrong for a node of f.
SkipCause(f) ==
    \E m \in NodeIds(f) :
        \/ ConnectFailed(Node(f, m))
        \/ HappenedAns("precheck", Node(f, m), "raise")
        \/ TimedOut(Node(f, m))

\* C25: in a live run a non-zero exit status of the power-off command is
\* only a warning: the step that gets it raises nothing, appends no Issue
\* and leaves parent_skip alone; for a node the wait is then performed, and
\* at the fleet decision parent_skip is set exactly for a strict run with a
\* failed connection or a timed-out wait, whatever the exit statuses were.
C25_NonZeroExitIsWarning ==
    /\ [][NonZeroStep =>
            /\ Live
            /\ ~exc'
            /\ issues' = issues
            /\ parent_skip' = parent_skip
            /\ pc' \in {"node_finally", "ws_finally", "gw_finally"}]_vars
    /\ [](\A f \in FleetIds : \A n \in NodeIds(f) :
            (HappenedAns("poweroff", Node(f, n), "rcNonZero") /\ PastNode(f, n))
                => Happened("waited", Node(f, n)))
    /\ []((Live /\ pc = "fleet_decide") =>
            (parent_skip <=> (Strict /\ SkipCause(fi))))

\* C25 witness: a live run ended in which a node, its fleet host and the
\* gateway all answered the power-off command with a non-zero exit status
\* and the node was confirmed down.
C25_Witness ==
    /\ Live
    /\ pc = "done"
    /\ HappenedAns("poweroff", GW, "rcNonZero")
    /\ \E f \in FleetIds :
          /\ HappenedAns("poweroff", FleetHost(f), "rcNonZero")
          /\ \E n \in NodeIds(f) :
                /\ HappenedAns("poweroff", Node(f, n), "rcNonZero")
                /\ ConfirmedDown(Node(f, n))

\* Issue a comes no later than Issue b in the order main() meets failures:
\* by target in configuration order, a pre-check warning before the
\* connection failure of the same node.
NoLater(a, b) ==
    \/ Before(a.target, b.target)
    \/ a.target = b.target /\ a.stage = "node(precheck)" /\ b.stage = "node"

\* C26: the Issue list only grows at its end, by one entry per step, and an
\* entry is never changed, moved or removed; Issues stand in the order in
\* which the failures occurred, and the final report prints them so.
C26_IssuesAppendOnly ==
    /\ [][\/ issues' = issues
          \/ /\ Len(issues') = Len(issues) + 1
             /\ SubSeq(issues', 1, Len(issues)) = issues]_vars
    /\ [](\A i, j \in DOMAIN issues : i < j => NoLater(issues[i], issues[j]))
    /\ []((pc = "done" /\ Connected(GW)) => reported = issues)

\* C26 witness: a run ended with three Issues reported.
C26_Witness ==
    /\ pc = "done"
    /\ Len(issues) = 3
    /\ reported = issues

\* The session that carries channel c is open.
CarrierOpen(c) ==
    IF c.via = GW THEN gw_conn = "open"
    ELSE ws = "open" /\ fi = c.via[1]

\* C27: every forwarded channel opened for a hop is released when the run
\* has ended, also a channel over which authentication failed; while a
\* channel is open the session that carries it is open.
C27_ChannelsReleased ==
    /\ Ended => channels = {}
    /\ \A c \in channels : CarrierOpen(c)
    /\ \A f \in FleetIds :
          Closed(FleetHost(f)) =>
              \A c \in channels : c.via # FleetHost(f) /\ c.dest # FleetHost(f)

\* C27 witness: a run ended in which authentication failed over the channel
\* to a fleet host and over the channel to a node of another fleet.
C27_Witness ==
    /\ pc = "done"
    /\ \E f \in FleetIds : HappenedAns("connect", FleetHost(f), "auth")
    /\ \E f \in FleetIds : \E n \in NodeIds(f) :
          HappenedAns("connect", Node(f, n), "auth")

\* ------------------------------------------------------------ termination
\* main() is one synchronous thread: whenever a step is possible, and the
\* transport call it makes returns or fails, the step is taken.
InitLive == Init /\ Len(fleets) + SumSeq(fleets) <= MaxLiveHosts

SpecLive == InitLive /\ [][Next]_vars /\ WF_vars(Next)

Attempts(t) == { i \in DOMAIN log : log[i].op = "connect" /\ log[i].target = t }

\* C28: every run terminates, with the gateway session not left open; a
\* wait makes at most as many polls as the per-node timeout has seconds, and
\* every fleet host and node is attempted at most once.
C28_RunTerminates ==
    /\ <>Ended
    /\ [](Ended => gw_conn # "open")
    /\ [](Len(polls) <= node_timeout /\ elapsed <= node_timeout + interval)
    /\ [](\A t \in Targets : Cardinality(Attempts(t)) <= 1)

\* C28 witness: a live run has ended, with the gateway closed, after a wait
\* that polled until its timeout.
C28_Witness ==
    /\ pc = "done"
    /\ gw_conn = "closed"
    /\ \E f \in FleetIds : \E n \in NodeIds(f) : TimedOut(Node(f, n))
    /\ node_timeout = MaxTimeout

\* ------------------------------------------------- claims on the diagnosis
IsResolver(c) == \E k \in DOMAIN cmds : cmds[k] = c

\* How many resolver commands were run.
DnsRuns == Cardinality({ k \in DOMAIN call.ran : IsResolver(call.ran[k]) })

\* The name-resolution part is over and the TCP part has begun.
DnsOver ==
    \/ call.pc \in {"tcp", "fallback", "ret"}
    \/ \E k \in DOMAIN call.ran : ~IsResolver(call.ran[k])

FirstAt(x, s) == CHOOSE k \in DOMAIN s : s[k] = x /\ \A j \in 1..(k - 1) : s[j] # x

\* d lists the elements of s once each, in the order of first occurrence.
IsDedupOf(d, s) ==
    /\ \A i, j \in DOMAIN d : i # j => d[i] # d[j]
    /\ { d[i] : i \in DOMAIN d } = { s[i] : i \in DOMAIN s }
    /\ \A i, j \in DOMAIN d : i < j => FirstAt(d[i], s) < FirstAt(d[j], s)

\* The call has ended: it returned, or an exception left it.
DiagEnded == call.pc \in {"ret", "raised"}

\* C29: the resolver commands are run in their fixed order and the name
\* resolution stops only at the first whose output holds a parseable
\* address, or after the last: no later one is run, dns_ok is True and
\* dns_ips are that command's addresses, each once, in order of first
\* occurrence; when none yields an address all were run, dns_ok is False,
\* dns_ips is empty and a note was added.
C29_FirstResolverWins ==
    call.fn = "diagnose" =>
        /\ \A k \in 1..DnsRuns : call.ran[k] = cmds[k]
        /\ \A k \in 1..(DnsRuns - 1) : ParseIps(call.outs[k]) = <<>>
        /\ ~(DnsOver \/ DiagEnded) =>
              (call.result.dns_ok = "None" /\ call.result.dns_ips = <<>>)
        /\ (DnsOver \/ DiagEnded) =>
              IF ParseIps(call.outs[DnsRuns]) # <<>>
                THEN /\ call.result.dns_ok = "True"
                     /\ IsDedupOf(call.result.dns_ips, ParseIps(call.outs[DnsRuns]))
                     /\ call.result.notes = <<>>
                ELSE /\ DnsRuns = Len(cmds)
                     /\ call.result.dns_ok = "False"
                     /\ call.result.dns_ips = <<>>
                     /\ Len(call.result.notes) = 1

\* The probe commands of the TCP part that were run, with their outputs.
TcpRuns == { k \in DOMAIN call.ran : ~IsResolver(call.ran[k]) }
ProbeOK(c) == \E k \in TcpRuns : call.ran[k] = c /\ HasOK(call.outs[k])
ProbeRan(c) == \E k \in TcpRuns : call.ran[k] = c

\* C30: whatever the name resolution gave, the call ends with a definite
\* tcp_ok: True with the method of the first probe that answered OK (nc,
\* else /dev/tcp), False only when both probes were run and neither answered
\* OK; /dev/tcp is run only when nc did not answer OK.
C30_TcpPartDefinite ==
    call.fn = "diagnose" =>
        /\ ProbeRan("/dev/tcp") => (ProbeRan("nc") /\ ~ProbeOK("nc"))
        /\ DiagEnded =>
              /\ ProbeRan("nc")
              /\ call.result.tcp_ok \in {"True", "False"}
              /\ call.result.tcp_ok = "True" =>
                    /\ ProbeOK("nc") \/ ProbeOK("/dev/tcp")
                    /\ call.result.tcp_method =
                          IF ProbeOK("nc") THEN "nc" ELSE "/dev/tcp"
              /\ call.result.tcp_ok = "False" =>
                    /\ ProbeRan("nc") /\ ProbeRan("/dev/tcp")
                    /\ ~ProbeOK("nc") /\ ~ProbeOK("/dev/tcp")
                    /\ call.result.tcp_method = "nc|/dev/tcp"

\* ------------------------------------------------ claims on parent_skip
\* C31: parent_skip is False when a fleet's node loop begins and is cleared
\* nowhere else, so once set it stays set up to that fleet's decision; at the
\* decision it is set only for a cause among the fleet's own nodes, and
\* whatever happened in one fleet every other fleet of the plan gets its
\* turn before the run ends.
C31_ParentSkipPerFleet ==
    /\ [][/\ (pc = "fleet_connect" /\ pc' \in {"precheck", "fleet_decide"})
                => ~parent_skip'
          /\ (parent_skip /\ ~parent_skip')
                => (pc = "fleet_connect" /\ pc' \in {"precheck", "fleet_decide"})]_vars
    /\ [](pc = "fleet_decide" => (parent_skip => SkipCause(fi)))
    /\ []((pc = "done" /\ Connected(GW)) =>
            \A g \in FleetIds :
                /\ Happened("connect", FleetHost(g))
                /\ Connected(FleetHost(g)) =>
                      (Invoked(FleetHost(g)) \/ SkipCause(g)))

\* C32: in a dry run parent_skip is never set and no protective skip is
\* reported, in strict as in non-strict mode; when the run has ended
\* Shutdown (the intent only) was invoked on every fleet host that was
\* connected, also on one whose node failed to connect.
C32_DryRunNeverSkips ==
    args.dry_run =>
        /\ ~parent_skip
        /\ \A f \in FleetIds : ~Skipped(FleetHost(f))
        /\ \A i \in DOMAIN log : log[i].op = "shutdown" => log[i].ans = "dry"
        /\ pc = "done" =>
              \A f \in FleetIds :
                  Connected(FleetHost(f)) => Invoked(FleetHost(f))

\* ------------------------------------------------- claims on the sessions
\* The session to t was open when the call logged at position i was made.
OpenAt(t, i) ==
    /\ \E j \in 1..(i - 1) :
          log[j].op = "connect" /\ log[j].target = t /\ log[j].ans = "ok"
    /\ \A j \in 1..(i - 1) : ~(log[j].op = "close" /\ log[j].target = t)

\* An exception was raised by a diagnostic or a shutdown command.
SomethingRaised ==
    \E i \in DOMAIN log : log[i].ans \in {"raise", "raiseBefore", "raiseAfter"}

OnSession(e) ==
    \/ e.op \in {"precheck", "diagnose", "wait", "waited", "shutdown", "poweroff"}
    \/ e.op = "connect" /\ e.target # GW

\* Position of the successful connection to t (0 if there is none).
OpenedAt(t) ==
    IF Connected(t)
      THEN CHOOSE i \in DOMAIN log :
              log[i].op = "connect" /\ log[i].target = t /\ log[i].ans = "ok"
      ELSE 0

\* C34: an open node session implies its fleet's session is open, an open
\* fleet session implies the gateway session is open; a session is closed
\* only when every session opened after it has been closed; every channel
\* open, diagnostic command, reachability wait and shutdown command was made
\* on a session open at that moment.
C34_SessionsNested ==
    /\ node_cli = "open" => ws = "open"
    /\ ws = "open" => gw_conn = "open"
    /\ \A t \in OpenSessions :
          /\ IsNode(t) => FleetHost(t[1]) \in OpenSessions
          /\ t # GW => GW \in OpenSessions
    /\ \A i \in DOMAIN log :
          log[i].op = "close" =>
              \A u \in Targets :
                  (OpenedAt(u) > OpenedAt(log[i].target) /\ OpenedAt(u) < i)
                      => \E j \in 1..(i - 1) :
                            log[j].op = "close" /\ log[j].target = u
    /\ \A i \in DOMAIN log : OnSession(log[i]) => OpenAt(log[i].via, i)

\* C34 witness: the gateway session was closed after a fleet session, which
\* was closed after the session of one of its nodes.
C34_Witness ==
    /\ gw_conn = "closed"
    /\ \E f \in FleetIds : \E n \in NodeIds(f) :
          Closed(Node(f, n)) /\ Closed(FleetHost(f))

\* ------------------------------------------------ timeouts of any sign
\* --node-timeout is any integer: runs whose timeout may be zero or negative.
InitAnyTimeout ==
    /\ args \in [dry_run : BOOLEAN, non_strict : BOOLEAN]
    /\ fleets \in Plans
    /\ node_timeout \in -1..MaxTimeout
    /\ poll_interval \in 1..MaxPoll
    /\ pc = "resolve"
    /\ fi = 0
    /\ ni = 0
    /\ gw_conn = "none"
    /\ ws = "none"
    /\ node_cli = "none"
    /\ channels = {}
    /\ issues = <<>>
    /\ parent_skip = FALSE
    /\ exc = FALSE
    /\ elapsed = 0
    /\ polls = <<>>
    /\ log = <<>>
    /\ fleet_pw_map = {}
    /\ config_error = 0
    /\ reported = <<>>
    /\ call = NoCall

SpecAnyTimeout == InitAnyTimeout /\ [][Next]_vars

\* A node of fleet f was connected and processing has gone past it.
HadConnectedNode(f) ==
    \E n \in NodeIds(f) : Connected(Node(f, n)) /\ PastNode(f, n)

\* C35: with a timeout T <= 0 the wait makes no probe and returns False; so
\* in a live strict run a connected fleet with a connected node has
\* parent_skip set from that node on, never has Shutdown invoked on its
\* host, and is reported as skipped when the loop goes on past it.
C35_NonPositiveTimeoutSkips ==
    node_timeout <= 0 =>
        /\ polls = <<>> /\ elapsed = 0
        /\ \A i \in DOMAIN log : log[i].op = "waited" => log[i].ans = "timeout"
        /\ (Live /\ Strict) =>
              \A f \in FleetIds :
                  HadConnectedNode(f) =>
                      /\ \E n \in NodeIds(f) : TimedOut(Node(f, n))
                      /\ (fi = f /\ ws = "open") => parent_skip
                      /\ ~Invoked(FleetHost(f))
                      /\ WentOnPast(f) => Skipped(FleetHost(f))

\* C35 witness: with a negative timeout, in a live strict run, a fleet whose
\* node was connected and answered the power-off command was skipped.
C35_Witness ==
    /\ node_timeout < 0
    /\ Live /\ Strict
    /\ \E f \in FleetIds :
          /\ Skipped(FleetHost(f))
          /\ \E n \in NodeIds(f) : HappenedAns("poweroff", Node(f, n), "rc0")

\* ------------------------------------------------------- claims on retries
Invocations(t) ==
    { i \in DOMAIN log : log[i].op = "shutdown" /\ log[i].target = t }

\* No fleet host or node is attempted or shut down twice, the gateway is
\* shut down at most once, and Shutdown is invoked only on a session that
\* was authenticated to the target and is open.
NoRetry ==
    /\ \A i \in DOMAIN log :
          log[i].op \in {"connect", "shutdown"} => log[i].target \in Targets
    /\ \A t \in Targets :
          /\ Cardinality(Attempts(t)) <= 1
          /\ Cardinality(Invocations(t)) <= 1
    /\ \A i \in DOMAIN log :
          log[i].op = "shutdown" =>
              (log[i].via = log[i].target /\ OpenAt(log[i].target, i))

Variants == {"shutdown_bot_configured", "shutdown_bot_modern"}

\* Characters the operator types; " " stands for whitespace.
Chars == {" ", "Y", "E", "S", "y"}
Answers == SeqsUpTo(Chars, MaxAnswer)
YES == <<"Y", "E", "S">>

\* Variant of strip that trims nothing.
stripNothing(t) == t

RECURSIVE strip(_)
\* str.strip(): leading and trailing whitespace removed.
strip(t) ==
    IF t = <<>> THEN t
    ELSE IF Head(t) = " " THEN strip(Tail(t))
    ELSE IF t[Len(t)] = " " THEN strip(SubSeq(t, 1, Len(t) - 1))
    ELSE t

InitConfirm ==
    /\ Standalone
    /\ call \in [fn : Variants,
                 dry_run : BOOLEAN,
                 pc : {"confirm"},
                 prompted : {FALSE},
                 confirm : {<<>>},
                 connects : {0},
                 sent : {FALSE}]

\* if not args.dry_run: confirm = input(...);
\* if confirm.strip() != "YES": print(...); return
Confirm ==
    /\ call.fn \in Variants
    /\ call.pc = "confirm"
    /\ IF call.dry_run
          THEN call' = [call EXCEPT !.pc = "gw_connect"]
          ELSE \E typed \in Answers :
                  call' = [call EXCEPT
                              !.prompted = TRUE,
                              !.confirm = typed,
                              !.pc = IF strip(typed) # YES THEN "cancelled"
                                     ELSE "gw_connect"]
    /\ UNCHANGED run

\* gw_conn = connect_host(gw.host, ...): not guarded in the variants, a
\* failure ends the run by its exception.
VariantConnectGateway ==
    /\ call.fn \in Variants
    /\ call.pc = "gw_connect"
    /\ \E a \in {"ok", "fail"} :
          call' = [call EXCEPT !.connects = @ + 1,
                               !.pc = IF a = "ok" THEN "hops" ELSE "raised"]
    /\ UNCHANGED run

\* try: the fleet and node hops, shutdown_host(..., dry_run=args.dry_run) on
\* every host reached; finally: gw_conn.close().  Commands are sent only in
\* a live run, and only if a shutdown call is reached before an exception.
VariantHops ==
    /\ call.fn \in Variants
    /\ call.pc = "hops"
    /\ \E sent \in (IF call.dry_run THEN {FALSE} ELSE BOOLEAN) :
          call' = [call EXCEPT !.sent = sent, !.pc = "done"]
    /\ UNCHANGED run

NextConfirm ==
    \/ Confirm
    \/ VariantConnectGateway
    \/ VariantHops

SpecConfirm == InitConfirm /\ [][NextConfirm]_vars

\* t is YES with nothing but whitespace before and after it.
IsPaddedYES(t) ==
    \E k \in 1..(Len(t) - 2) :
        /\ SubSeq(t, k, k + 2) = YES
        /\ \A j \in DOMAIN t : (j < k \/ j > k + 2) => t[j] = " "

\* C37: in both variants a live run attempts a connection or sends a command
\* only after the operator was prompted and typed YES, whitespace around it
\* aside; such an answer lets the run go on, any other answer ends it with
\* nothing attempted; a dry run is never prompted and sends nothing.
C37_LiveRunNeedsYES ==
    call.fn \in Variants =>
        /\ (~call.dry_run /\ (call.connects > 0 \/ call.sent \/ call.pc # "confirm"))
              => call.prompted
        /\ call.prompted =>
              IF IsPaddedYES(call.confirm)
                THEN call.pc # "cancelled"
                ELSE call.pc = "cancelled" /\ call.connects = 0 /\ ~call.sent
        /\ call.dry_run => (~call.prompted /\ ~call.sent /\ call.pc # "cancelled")

\* C37 witness: a live run of the modern variant went on to connect after
\* the operator typed YES with whitespace before and after it.
C37_Witness ==
    /\ call.fn = "shutdown_bot_modern"
    /\ ~call.dry_run
    /\ call.confirm = <<" ", "Y", "E", "S", " ">>
    /\ call.connects = 1
    /\ call.sent
====
